---- MODULE Spec2Model ----
(***************************************************************************)
(* Birthday image generator: the generateBirthdayImage HTTP handler and    *)
(* renderCumples (src/src/functions/BirthdayImage.js).                     *)
(*                                                                         *)
(* Strings are sequences of one-character strings.  A dayjs value is the   *)
(* record [valid, y, M, D] of its $y, $M (0-based month) and $D fields.    *)
(* Horizontal positions are exact rationals [num, den]; the code computes  *)
(* them in IEEE doubles.                                                   *)
(***************************************************************************)
EXTENDS Integers, Sequences, FiniteSets, TLC

(***************************************************************************)
(* Program constants                                                       *)
(***************************************************************************)
WIDTH == 1366
HEIGHT == 768
PHOTO_SIZE == 150
maxPorFila == 4
filaYBase == 320
filaBaseSingle == 400
filaAltura == PHOTO_SIZE + 100

(***************************************************************************)
(* Bounds of the model                                                     *)
(***************************************************************************)
\* longest roster enumerated by the selection and handler specifications
MaxRoster == 3
\* largest celebrant count enumerated for the layout loop
MaxCelebrants == 9
\* calendar years enumerated for "now": FirstYear .. FirstYear + YearSpan
FirstYear == 2023
YearSpan == 1

(***************************************************************************)
(* Strings                                                                 *)
(***************************************************************************)
Blank == {" ", "\t"}
Digits == <<"0", "1", "2", "3", "4", "5", "6", "7", "8", "9">>
IsDigit(c) == \E k \in 1..10 : Digits[k] = c
DigitVal(c) == (CHOOSE k \in 1..10 : Digits[k] = c) - 1

\* String.prototype.toLowerCase on the letters the model uses
ToLower(c) ==
  CASE c = "H" -> "h"
    [] c = "T" -> "t"
    [] c = "P" -> "p"
    [] c = "S" -> "s"
    [] OTHER -> c

RECURSIVE TrimStart(_)
TrimStart(s) ==
  IF s # <<>> /\ Head(s) \in Blank THEN TrimStart(Tail(s)) ELSE s

RECURSIVE TrimEnd(_)
TrimEnd(s) ==
  IF s # <<>> /\ s[Len(s)] \in Blank THEN TrimEnd(SubSeq(s, 1, Len(s) - 1)) ELSE s

\* String.prototype.trim
Trim(s) == TrimEnd(TrimStart(s))

\* s.replace(/^\/+/, '')
RECURSIVE StripLeadingSlashes(_)
StripLeadingSlashes(s) ==
  IF s # <<>> /\ Head(s) = "/" THEN StripLeadingSlashes(Tail(s)) ELSE s

\* s.replace(/\/+$/, '')
RECURSIVE StripTrailingSlashes(_)
StripTrailingSlashes(s) ==
  IF s # <<>> /\ s[Len(s)] = "/"
  THEN StripTrailingSlashes(SubSeq(s, 1, Len(s) - 1))
  ELSE s

StartsWithCI(s, p) ==
  /\ Len(s) >= Len(p)
  /\ \A k \in 1..Len(p) : ToLower(s[k]) = p[k]

\* /^https?:\/\//i.test(name)
IsAbsoluteUrl(name) ==
  \/ StartsWithCI(name, <<"h", "t", "t", "p", ":", "/", "/">>)
  \/ StartsWithCI(name, <<"h", "t", "t", "p", "s", ":", "/", "/">>)

\* path.join(dir, name): one separator between the parts, duplicate
\* separators collapsed
PathJoin(dir, name) ==
  LET n == StripLeadingSlashes(name)
      d == StripTrailingSlashes(dir)
  IN IF n = <<>> THEN d ELSE d \o <<"/">> \o n

\* String(x).padStart(2, '0') on a string
PadStart2(s) ==
  CASE Len(s) = 0 -> <<"0", "0">>
    [] Len(s) = 1 -> <<"0">> \o s
    [] OTHER -> s

\* parseInt(s, 10): leading white space skipped, optional sign, the longest
\* digit prefix; NaN when there is no digit
RECURSIVE DigitPrefixVal(_, _)
DigitPrefixVal(s, acc) ==
  IF s # <<>> /\ IsDigit(Head(s))
  THEN DigitPrefixVal(Tail(s), acc * 10 + DigitVal(Head(s)))
  ELSE acc

parseInt(s) ==
  LET t == TrimStart(s)
      neg == t # <<>> /\ Head(t) = "-"
      u == IF t # <<>> /\ Head(t) \in {"-", "+"} THEN Tail(t) ELSE t
  IN IF u = <<>> \/ ~IsDigit(Head(u))
     THEN [nan |-> TRUE, v |-> 0]
     ELSE [nan |-> FALSE,
           v |-> IF neg THEN 0 - DigitPrefixVal(u, 0) ELSE DigitPrefixVal(u, 0)]

(***************************************************************************)
(* Dates (dayjs over the JavaScript Date)                                  *)
(***************************************************************************)
IsLeap(y) == (y % 4 = 0 /\ y % 100 # 0) \/ y % 400 = 0

\* days of the month with 0-based index M of year y
DaysInMonth(y, M) ==
  CASE M = 1 -> IF IsLeap(y) THEN 29 ELSE 28
    [] M \in {3, 5, 8, 10} -> 30
    [] OTHER -> 31

\* new Date(y, M, D) for M >= 0 and D >= 1: a month index past 11 carries
\* into the year, a day past the end of the month carries into the next
\* month
RECURSIVE DateNormalize(_, _, _)
DateNormalize(y, M, D) ==
  IF M > 11 THEN DateNormalize(y + 1, M - 12, D)
  ELSE IF D > DaysInMonth(y, M) THEN DateNormalize(y, M + 1, D - DaysInMonth(y, M))
  ELSE [valid |-> TRUE, y |-> y, M |-> M, D |-> D]

\* dayjs(`${year}-${MM}-${DD}`) for month and day of at most two digits:
\* REGEX_PARSE captures them and the value is new Date(year, MM - 1, DD)
dayjsParse(year, month, day) == DateNormalize(year, month - 1, day)

\* mutant of dayjsAdd: the day is clamped to the end of the month
dayjsAddClamped(d, n) ==
  [d EXCEPT !.D = IF d.D + n > DaysInMonth(d.y, d.M)
                  THEN DaysInMonth(d.y, d.M) ELSE d.D + n]

\* d.add(n, 'day'): setDate(date + n) on a copy
dayjsAdd(d, n) ==
  IF d.valid THEN DateNormalize(d.y, d.M, d.D + n) ELSE d

\* d.date(), d.month()
dayjsDate(d) == d.D
dayjsMonth(d) == d.M

\* d.format('YYYY-MM-DD') as the record of its three fields
dayjsFormat(d) == [YYYY |-> d.y, MM |-> d.M + 1, DD |-> d.D]

(***************************************************************************)
(* resolvePhotoSrc                                                         *)
(***************************************************************************)
Unresolved == [resolved |-> FALSE, src |-> <<>>]
Resolved(s) == [resolved |-> TRUE, src |-> s]

\* mutant of resolvePhotoSrc: the base URL rule before the absolute URL rule
resolvePhotoSrcBaseFirst(photoName, photosBaseUrl, fotosDir, files) ==
  LET name == Trim(photoName)
      p == PathJoin(fotosDir, name)
  IN IF name = <<>> THEN Unresolved
     ELSE IF photosBaseUrl # <<>>
       THEN Resolved(StripTrailingSlashes(photosBaseUrl) \o <<"/">>
                     \o StripLeadingSlashes(name))
     ELSE IF IsAbsoluteUrl(name) THEN Resolved(name)
     ELSE IF p \in files THEN Resolved(p)
     ELSE Unresolved

\* resolvePhotoSrc(photoName, { photosBaseUrl, fotosDir }); files is the set
\* of paths for which fs.existsSync answers true
resolvePhotoSrc(photoName, photosBaseUrl, fotosDir, files) ==
  LET name == Trim(photoName)
      p == PathJoin(fotosDir, name)
  IN IF name = <<>> THEN Unresolved
     ELSE IF IsAbsoluteUrl(name) THEN Resolved(name)
     ELSE IF photosBaseUrl # <<>>
       THEN Resolved(StripTrailingSlashes(photosBaseUrl) \o <<"/">>
                     \o StripLeadingSlashes(name))
     ELSE IF p \in files THEN Resolved(p)
     ELSE Unresolved

defaultName == <<"u", "s", "e", "r", ".", "p", "n", "g">>

(***************************************************************************)
(* renderCumples: window, selection, layout                                *)
(***************************************************************************)
\* Array.from({ length: 7 }, (_, i) => hoy.add(i, 'day'))
Window(hoy) == [k \in 1..7 |-> dayjsAdd(hoy, k - 1)]

\* mutant of IsCumpleanero: the 0-based month compared as it is
IsCumpleaneroZeroBasedMonth(emp, dias) ==
  LET dia == parseInt(emp.Day)
      mes == parseInt(emp.Month)
  IN \E k \in 1..Len(dias) :
       /\ ~dia.nan /\ dayjsDate(dias[k]) = dia.v
       /\ ~mes.nan /\ dayjsMonth(dias[k]) = mes.v

\* the predicate of empleados.filter
IsCumpleanero(emp, dias) ==
  LET dia == parseInt(emp.Day)
      mes == parseInt(emp.Month)
  IN \E k \in 1..Len(dias) :
       /\ dias[k].valid
       /\ ~dia.nan /\ dayjsDate(dias[k]) = dia.v
       /\ ~mes.nan /\ dayjsMonth(dias[k]) + 1 = mes.v

\* Array.prototype.filter
RECURSIVE Filter(_, _)
Filter(emps, dias) ==
  IF emps = <<>> THEN <<>>
  ELSE IF IsCumpleanero(Head(emps), dias)
    THEN <<Head(emps)>> \o Filter(Tail(emps), dias)
    ELSE Filter(Tail(emps), dias)

Min(a, b) == IF a < b THEN a ELSE b

\* mutant of LayoutSlot: the spacing of a full row in every row
LayoutSlotFullRowSpacing(i, n) ==
  [fila |-> i \div maxPorFila,
   columna |-> i % maxPorFila,
   x |-> [num |-> WIDTH * ((i % maxPorFila) + 1), den |-> maxPorFila + 1],
   y |-> (IF n <= 4 THEN filaBaseSingle ELSE filaYBase) + (i \div maxPorFila) * filaAltura]

\* the position of celebrant i (0-based) among n: fila, columna, x, y
LayoutSlot(i, n) ==
  LET fila == i \div maxPorFila
      columna == i % maxPorFila
      filaBase == IF n <= 4 THEN filaBaseSingle ELSE filaYBase
      \* cumpleaneros.slice(fila * maxPorFila, (fila + 1) * maxPorFila).length
      personasEnFila == Min(n, (fila + 1) * maxPorFila) - Min(n, fila * maxPorFila)
  IN [fila |-> fila,
      columna |-> columna,
      \* spacingFila * (columna + 1) with spacingFila = WIDTH / (personasEnFila + 1)
      x |-> [num |-> WIDTH * (columna + 1), den |-> personasEnFila + 1],
      y |-> filaBase + fila * filaAltura]

\* `${FirstName.trim()} ${LastName.trim()}`.trim()
Nombre(emp) == Trim(Trim(emp.FirstName) \o <<" ">> \o Trim(emp.LastName))

(***************************************************************************)
(* State                                                                   *)
(***************************************************************************)
VARIABLES
  pc,            \* position of the handler
  request,       \* the HTTP request being served
  rawBody,       \* the body text as read by the handler
  payload,       \* the body parsed by the handler
  csv,           \* the rows the request's CSV source parses to
  env,           \* process settings and clock
  fotos,         \* paths that exist under fotosDir
  web,           \* URLs whose image loads
  assets,        \* asset images that exist under assetsDir
  hoy,           \* reference date
  photosBaseUrl, \* the handler's photosBaseUrl
  empleados,     \* parsed roster
  source,        \* where the roster came from
  diasSemana,    \* the window
  cumpleaneros,  \* selected celebrants
  i,             \* loop index of renderCumples
  slots,         \* position computed for each celebrant drawn so far
  canvas,        \* drawing operations applied to the canvas, in order
  resolveLog,    \* calls of resolvePhotoSrc, in order
  outFile,       \* the PNG written to outFilePath
  uploadedUrl,   \* urlWithSas of the uploaded blob
  blobs,         \* files uploaded to the container
  teams,         \* payloads posted to the Teams webhook
  response       \* what the handler gave back

vars == <<pc, request, rawBody, payload, csv, env, fotos, web, assets, hoy, photosBaseUrl, empleados,
          source, diasSemana, cumpleaneros, i, slots, canvas, resolveLog,
          outFile, uploadedUrl, blobs, teams, response>>

fotosDir == <<"f", "o", "t", "o", "s">>

NoFile == [written |-> FALSE, ops |-> <<>>]
NoRange == [start |-> [YYYY |-> 0, MM |-> 0, DD |-> 0],
            end |-> [YYYY |-> 0, MM |-> 0, DD |-> 0]]
NoResponse == [outcome |-> "none", status |-> 0, body |-> "",
               dateRange |-> NoRange, cumpleaneros |-> 0, uploadedUrl |-> "",
               source |-> ""]
\* an exception left the handler
Threw == [NoResponse EXCEPT !.outcome = "threw"]
\* { status: 200, body: 'OK' }
PlainOK == [NoResponse EXCEPT !.outcome = "returned", !.status = 200, !.body = "OK"]
\* { status: 400, jsonBody: { error } }
BadRequest == [NoResponse EXCEPT !.outcome = "returned", !.status = 400, !.body = "error"]

DateRange(d) == [start |-> dayjsFormat(d), end |-> dayjsFormat(dayjsAdd(d, 6))]

(***************************************************************************)
(* The handler up to its call of renderCumples                             *)
(***************************************************************************)
NoPayload == [present |-> FALSE, day |-> <<>>, month |-> <<>>,
              csvText |-> FALSE, csvUrl |-> FALSE, photosBaseUrl |-> <<>>]

\* s.includes(p)
Includes(s, p) ==
  \E k \in 1..(Len(s) - Len(p) + 1) : SubSeq(s, k, k + Len(p) - 1) = p

\* mutant of isHealthCheck: an empty user-agent is no health probe
isHealthCheckMarkersOnly(ua) ==
  \/ Includes(ua, <<"A", "l", "w", "a", "y", "s", "O", "n">>)
  \/ Includes(ua, <<"A", "z", "u", "r", "e", "-", "F", "u", "n", "c", "t", "i", "o", "n", "s">>)
  \/ Includes(ua, <<"H", "e", "a", "l", "t", "h", "C", "h", "e", "c", "k">>)

\* lines 55-59
isHealthCheck(ua) ==
  \/ Includes(ua, <<"A", "l", "w", "a", "y", "s", "O", "n">>)
  \/ Includes(ua, <<"A", "z", "u", "r", "e", "-", "F", "u", "n", "c", "t", "i", "o", "n", "s">>)
  \/ Includes(ua, <<"H", "e", "a", "l", "t", "h", "C", "h", "e", "c", "k">>)
  \/ ua = <<>>

\* the longest run of at most two digits at the head of s
TwoDigits(s) ==
  IF Len(s) >= 2 /\ IsDigit(s[1]) /\ IsDigit(s[2]) THEN SubSeq(s, 1, 2)
  ELSE IF Len(s) >= 1 /\ IsDigit(s[1]) THEN SubSeq(s, 1, 1)
  ELSE <<>>

RECURSIVE SkipNonDigits(_)
SkipNonDigits(s) ==
  IF s # <<>> /\ ~IsDigit(Head(s)) THEN SkipNonDigits(Tail(s)) ELSE s

\* rawBody.match(/(\d{1,2})\D+(\d{1,2})/): the leftmost match, greedy
RECURSIVE bodyMatch(_)
bodyMatch(s) ==
  IF s = <<>> THEN [found |-> FALSE, day |-> <<>>, month |-> <<>>]
  ELSE LET a == TwoDigits(s)
           rest == SubSeq(s, Len(a) + 1, Len(s))
           after == SkipNonDigits(rest)
       IN IF a # <<>> /\ rest # <<>> /\ ~IsDigit(Head(rest)) /\ after # <<>>
          THEN [found |-> TRUE, day |-> a, month |-> TwoDigits(after)]
          ELSE bodyMatch(Tail(s))

\* lines 76-84: the payload of a body text read as raw
parsePayload(req, raw) ==
  IF req.ctypeJson /\ raw # <<>> THEN req.json
  ELSE IF raw # <<>> /\ bodyMatch(raw).found
    THEN [NoPayload EXCEPT !.present = TRUE, !.day = bodyMatch(raw).day,
                           !.month = bodyMatch(raw).month]
  ELSE NoPayload

NaN == [nan |-> TRUE, v |-> 0]
Truthy(n) == ~n.nan /\ n.v # 0

\* lines 86-93: day and month, query before body; NaN stands for null too
dayOf(req, pl) ==
  IF req.dayQuery # <<>> /\ req.monthQuery # <<>> THEN parseInt(req.dayQuery)
  ELSE IF pl.present /\ pl.day # <<>> /\ pl.month # <<>> THEN parseInt(pl.day)
  ELSE NaN

monthOf(req, pl) ==
  IF req.dayQuery # <<>> /\ req.monthQuery # <<>> THEN parseInt(req.monthQuery)
  ELSE IF pl.present /\ pl.day # <<>> /\ pl.month # <<>> THEN parseInt(pl.month)
  ELSE NaN

\* lines 97-99: the reference date
referenceDate(day, month, now) ==
  IF Truthy(day) /\ Truthy(month)
  THEN dayjsParse(now.y, month.v, day.v)
  ELSE now

HandlerVarsUnchanged ==
  UNCHANGED <<request, csv, env, fotos, web, assets, diasSemana, cumpleaneros,
              i, slots, canvas, resolveLog, outFile, uploadedUrl, blobs, teams>>

\* lines 38-67: method, body read once (a failed read leaves ''), health check
HandlerEntry ==
  /\ pc = "start"
  /\ IF request.method # "POST"
     THEN /\ pc' = "done"
          /\ response' = PlainOK
          /\ UNCHANGED rawBody
     ELSE \E raw \in {request.rawBody, <<>>} :
            /\ rawBody' = raw
            /\ IF /\ isHealthCheck(request.ua)
                  /\ ~(request.dayQuery # <<>> /\ request.monthQuery # <<>>)
                  /\ raw = <<>>
               THEN /\ pc' = "done"
                    /\ response' = PlainOK
               ELSE /\ pc' = "date"
                    /\ UNCHANGED response
  /\ UNCHANGED <<payload, hoy, photosBaseUrl, empleados, source>>
  /\ HandlerVarsUnchanged

\* lines 69-101: payload, day and month, the reference date
ParseDate ==
  /\ pc = "date"
  /\ LET pl == parsePayload(request, rawBody)
     IN /\ payload' = pl
        /\ hoy' = referenceDate(dayOf(request, pl), monthOf(request, pl), env.now)
  /\ photosBaseUrl' = env.PHOTOS_BASE_URL
  /\ pc' = "csv"
  /\ UNCHANGED <<rawBody, empleados, source, response>>
  /\ HandlerVarsUnchanged

\* line 199
sourceOf(req, pl) ==
  IF req.csvUrlQuery \/ pl.csvUrl THEN "csvUrl"
  ELSE IF pl.csvText THEN "csvText"
  ELSE "local"

\* lines 103-137: the roster from csvText, else csvUrl (the download may
\* fail), else the local file (which may not exist)
AcquireCsv ==
  /\ pc = "csv"
  /\ \/ \* csvText given, or the download or the local read succeeds
        /\ empleados' = csv
        /\ source' = sourceOf(request, payload)
        /\ pc' = "render"
        /\ UNCHANGED response
     \/ \* no csvText, and the download fails or there is no local file
        /\ ~payload.csvText
        /\ pc' = "done"
        /\ response' = BadRequest
        /\ UNCHANGED <<empleados, source>>
  /\ UNCHANGED <<rawBody, payload, hoy, photosBaseUrl>>
  /\ HandlerVarsUnchanged

(***************************************************************************)
(* renderCumples                                                           *)
(***************************************************************************)
Op(op, idx, what, clip) == [op |-> op, idx |-> idx, what |-> what, clip |-> clip]

\* mutant of RenderBegin: the render goes on without the background
RenderBeginWithoutBackground ==
  /\ pc = "render"
  /\ diasSemana' = Window(hoy)
  /\ cumpleaneros' = Filter(empleados, Window(hoy))
  /\ canvas' = IF "background" \in assets
               THEN <<Op("background", -1, <<>>, FALSE)>> ELSE <<>>
  /\ pc' = "badge"
  /\ UNCHANGED <<request, rawBody, payload, csv, env, fotos, web, assets, hoy,
                 photosBaseUrl, empleados, source, i, slots, resolveLog, outFile,
                 uploadedUrl, blobs, teams, response>>

\* lines 286-317: window, selection, canvas, background
RenderBegin ==
  /\ pc = "render"
  /\ diasSemana' = Window(hoy)
  /\ cumpleaneros' = Filter(empleados, Window(hoy))
  /\ IF "background" \in assets
     THEN /\ canvas' = <<Op("background", -1, <<>>, FALSE)>>
          /\ pc' = "badge"
          /\ UNCHANGED response
     ELSE /\ pc' = "done"
          /\ response' = Threw
          /\ UNCHANGED canvas
  /\ UNCHANGED <<request, rawBody, payload, csv, env, fotos, web, assets, hoy, photosBaseUrl, empleados,
                 source, i, slots, resolveLog, outFile, uploadedUrl, blobs, teams>>

\* lines 319-355: the date badge, then the day bubble image
RenderBadge ==
  /\ pc = "badge"
  /\ canvas' = Append(canvas,
       Op("badge", -1, <<hoy.M, hoy.D, dayjsAdd(hoy, 6).M, dayjsAdd(hoy, 6).D>>, FALSE))
  /\ IF "day-bubble" \in assets
     THEN /\ pc' = "loop"
          /\ i' = 0
          /\ UNCHANGED response
     ELSE /\ pc' = "done"
          /\ response' = Threw
          /\ UNCHANGED i
  /\ UNCHANGED <<request, rawBody, payload, csv, env, fotos, web, assets, hoy, photosBaseUrl, empleados,
                 source, diasSemana, cumpleaneros, slots, resolveLog, outFile,
                 uploadedUrl, blobs, teams>>

Call(idx, name, base, res) ==
  [idx |-> idx, photoName |-> name, photosBaseUrl |-> base, result |-> res]

\* mutant of ResolveCalls: the retry looks in the local directory only
ResolveCallsLocalRetry(emp, idx, base, files) ==
  LET first == resolvePhotoSrc(emp.PhotoName, base, fotosDir, files)
  IN IF ~first.resolved
     THEN <<Call(idx, emp.PhotoName, base, first),
            Call(idx, defaultName, <<>>,
                 resolvePhotoSrc(defaultName, <<>>, fotosDir, files))>>
     ELSE <<Call(idx, emp.PhotoName, base, first)>>

\* lines 368-378: the calls of resolvePhotoSrc for celebrant idx
ResolveCalls(emp, idx, base, files) ==
  LET rawName == emp.PhotoName
      first == resolvePhotoSrc(rawName, base, fotosDir, files)
  IN IF ~first.resolved
     THEN <<Call(idx, rawName, base, first),
            Call(idx, defaultName, base,
                 resolvePhotoSrc(defaultName, base, fotosDir, files))>>
     ELSE <<Call(idx, rawName, base, first)>>

\* loadImage(src): a null src never loads
loadImage(src, files, urls) == src.resolved /\ src.src \in (files \cup urls)

\* mutant of DrawCelebrant: a failed load skips the rest of the iteration
DrawCelebrantOrNothing(emp, idx, src, loaded) ==
  IF loaded
  THEN <<Op("photo", idx, src.src, TRUE),
         Op("bubble", idx, PadStart2(emp.Day), FALSE),
         Op("name", idx, Nombre(emp), FALSE)>>
  ELSE <<>>

\* lines 380-414: what one iteration draws, given the source and whether it
\* loaded.  The clip is set between ctx.save() and ctx.restore() only, both
\* after the load.
DrawCelebrant(emp, idx, src, loaded) ==
  (IF loaded THEN <<Op("photo", idx, src.src, TRUE)>> ELSE <<>>)
  \o <<Op("bubble", idx, PadStart2(emp.Day), FALSE),
       Op("name", idx, Nombre(emp), FALSE)>>

\* lines 357-415: one iteration of the loop
RenderLoop ==
  /\ pc = "loop"
  /\ i < Len(cumpleaneros)
  /\ LET emp == cumpleaneros[i + 1]
         calls == ResolveCalls(emp, i, photosBaseUrl, fotos)
         src == calls[Len(calls)].result
     IN /\ slots' = Append(slots, LayoutSlot(i, Len(cumpleaneros)))
        /\ resolveLog' = resolveLog \o calls
        /\ canvas' = canvas \o DrawCelebrant(emp, i, src, loadImage(src, fotos, web))
  /\ i' = i + 1
  /\ UNCHANGED <<pc, request, rawBody, payload, csv, env, fotos, web, assets, hoy, photosBaseUrl,
                 empleados, source, diasSemana, cumpleaneros, outFile,
                 uploadedUrl, blobs, teams, response>>

\* lines 417-423: write the PNG and return
RenderSave ==
  /\ pc = "loop"
  /\ i = Len(cumpleaneros)
  /\ outFile' = [written |-> TRUE, ops |-> canvas]
  /\ pc' = "upload"
  /\ UNCHANGED <<request, rawBody, payload, csv, env, fotos, web, assets, hoy, photosBaseUrl, empleados,
                 source, diasSemana, cumpleaneros, i, slots, canvas, resolveLog,
                 uploadedUrl, blobs, teams, response>>

(***************************************************************************)
(* The handler after renderCumples                                         *)
(***************************************************************************)
\* lines 166-170: uploadPngToBlobAndGetUrl, which succeeds or throws
Upload ==
  /\ pc = "upload"
  /\ \/ /\ blobs' = Append(blobs, outFile)
        /\ uploadedUrl' = "urlWithSas"
        /\ pc' = "notify"
        /\ UNCHANGED response
     \/ /\ pc' = "done"
        /\ response' = Threw
        /\ UNCHANGED <<blobs, uploadedUrl>>
  /\ UNCHANGED <<request, rawBody, payload, csv, env, fotos, web, assets, hoy, photosBaseUrl, empleados,
                 source, diasSemana, cumpleaneros, i, slots, canvas, resolveLog,
                 outFile, teams>>

\* lines 172-190: the Teams webhook; the awaited fetch resolves or rejects
Notify ==
  /\ pc = "notify"
  /\ IF env.TEAMS_WEBHOOK_URL /\ uploadedUrl # ""
     THEN \/ /\ teams' = Append(teams,
                   [uploadedUrl |-> uploadedUrl,
                    cumpleaneros |-> Len(cumpleaneros),
                    dateRange |-> DateRange(hoy)])
             /\ pc' = "respond"
             /\ UNCHANGED response
          \/ /\ pc' = "done"
             /\ response' = Threw
             /\ UNCHANGED teams
     ELSE /\ pc' = "respond"
          /\ UNCHANGED <<teams, response>>
  /\ UNCHANGED <<request, rawBody, payload, csv, env, fotos, web, assets, hoy, photosBaseUrl, empleados,
                 source, diasSemana, cumpleaneros, i, slots, canvas, resolveLog,
                 outFile, uploadedUrl, blobs>>

\* lines 192-201
Respond ==
  /\ pc = "respond"
  /\ response' = [outcome |-> "returned", status |-> 200, body |-> "json",
                  dateRange |-> DateRange(hoy),
                  cumpleaneros |-> Len(cumpleaneros),
                  uploadedUrl |-> uploadedUrl,
                  source |-> source]
  /\ pc' = "done"
  /\ UNCHANGED <<request, rawBody, payload, csv, env, fotos, web, assets, hoy, photosBaseUrl, empleados,
                 source, diasSemana, cumpleaneros, i, slots, canvas, resolveLog,
                 outFile, uploadedUrl, blobs, teams>>

(***************************************************************************)
(* Inputs                                                                  *)
(***************************************************************************)
Years == FirstYear..(FirstYear + YearSpan)

Date(y, M, D) == [valid |-> TRUE, y |-> y, M |-> M, D |-> D]

\* every calendar date of the enumerated years
AllDates ==
  UNION {UNION {{Date(y, M, D) : D \in 1..DaysInMonth(y, M)} : M \in 0..11} : y \in Years}

Emp(first, last, day, month, photo) ==
  [FirstName |-> first, LastName |-> last, Day |-> day, Month |-> month,
   PhotoName |-> photo]

Rosters(recs) == UNION {[1..n -> recs] : n \in 0..MaxRoster}

Empty == <<>>
APng == <<"a", ".", "p", "n", "g">>
UserLocal == PathJoin(fotosDir, defaultName)
ALocal == PathJoin(fotosDir, APng)
LocalUniverse == {ALocal, UserLocal}
BaseUrl == <<"h", "t", "t", "p", ":", "/", "/", "b", "/">>
OtherBaseUrl == <<"h", "t", "t", "p", ":", "/", "/", "c">>
AbsPhoto == <<"h", "t", "t", "p", ":", "/", "/", "x", "/", "p", ".", "p", "n", "g">>
WebUniverse == {<<"h", "t", "t", "p", ":", "/", "/", "b", "/", "a", ".", "p", "n", "g">>, <<"h", "t", "t", "p", ":", "/", "/", "b", "/", "u", "s", "e", "r", ".", "p", "n", "g">>,
                <<"h", "t", "t", "p", ":", "/", "/", "b", "/", "g", "h", "o", "s", "t", ".", "p", "n", "g">>, AbsPhoto}
AllAssets == {"background", "day-bubble"}

\* rosters for the selection: fields as the CSV gives them
SelRecords ==
  {Emp(<<"A", "n", "a">>, <<"L">>, <<"1", "9">>, <<"7">>, Empty),
   Emp(<<"B", "o", "b">>, <<"R">>, <<"1", "9">>, <<"7">>, Empty),
   Emp(<<"C", "y">>, <<"M">>, <<"2", "5">>, <<"0", "7">>, Empty),
   Emp(<<"D", "i">>, <<"N">>, <<"2", "6">>, <<"7">>, Empty),
   Emp(<<"G", "u", "s">>, <<"Q">>, <<"x">>, <<"7">>, Empty)}

SelDates ==
  {Date(y, 6, 19) : y \in Years} \cup {Date(y, 6, 13) : y \in Years}
  \cup {Date(y, 6, 20) : y \in Years}

\* records for the sweep over every date: 1 January written with blanks and
\* a trailing letter, 29 February, and day and month swapped
SweepRoster ==
  <<Emp(<<"F", "l", "o">>, <<"P">>, <<" ", "1">>, <<"1", "x">>, Empty),
    Emp(<<"E", "d">>, <<"O">>, <<"2", "9">>, <<"2">>, Empty),
    Emp(<<"I", "d", "a">>, <<"T">>, <<"7">>, <<"1", "9">>, Empty)>>

\* photo names and base URLs for the resolver
PhotoNames ==
  {Empty, <<" ">>, APng, <<" ", "a", ".", "p", "n", "g", " ">>, <<"/", "a", ".", "p", "n", "g">>, <<"/", "/", "a", ".", "p", "n", "g">>, <<"g", "h", "o", "s", "t", ".", "p", "n", "g">>,
   AbsPhoto, <<"H", "T", "T", "P", "S", ":", "/", "/", "x", "/", "p", ".", "p", "n", "g">>, <<"h", "t", "t", "p", ":", "/", "/", "x", "/", "p", ".", "p", "n", "g", " ">>, <<"h", "t", "t", "p", "x">>, defaultName}

BaseUrls == {Empty, <<"h", "t", "t", "p", ":", "/", "/", "b">>, BaseUrl, <<"h", "t", "t", "p", ":", "/", "/", "b", "/", "/">>}

\* a POST from a client that is no health probe, with neither query nor body
Post ==
  [method |-> "POST", ua |-> <<"c", "u", "r", "l">>, ctypeJson |-> FALSE, dayQuery |-> <<>>,
   monthQuery |-> <<>>, csvUrlQuery |-> FALSE, rawBody |-> <<>>,
   json |-> NoPayload]

NoRequest == Post

WithQuery(day, month) == [Post EXCEPT !.dayQuery = day, !.monthQuery = month]

WithJson(day, month) ==
  [Post EXCEPT !.ctypeJson = TRUE, !.rawBody = <<"{", "}">>,
               !.json = [NoPayload EXCEPT !.present = TRUE, !.day = day,
                                          !.month = month]]

WithText(raw) == [Post EXCEPT !.rawBody = raw]

\* day and month as the caller may send them: valid dates, 31 February,
\* day 0, month 13, 30 February, no number
DayMonthInputs ==
  {<<<<"1", "9">>, <<"7">>>>, <<<<"3", "1">>, <<"2">>>>, <<<<"0">>, <<"5">>>>, <<<<"5">>, <<"1", "3">>>>,
   <<<<"3", "0">>, <<"0", "2">>>>, <<<<"x">>, <<"7">>>>, <<<<"2", "8">>, <<"1", "2">>>>}

Requests ==
  {WithQuery(dm[1], dm[2]) : dm \in DayMonthInputs}
  \cup {WithJson(dm[1], dm[2]) : dm \in {<<<<"3", "1">>, <<"2">>>>, <<<<"1", "9">>, <<"7">>>>}}
  \cup {WithText(<<"3", "1", ",", "2">>), WithText(<<"1", "1", "9", " ", "7">>), WithText(<<"h", "o", "l", "a">>)}
  \cup {Post,
        [Post EXCEPT !.csvUrlQuery = TRUE],
        [Post EXCEPT !.ctypeJson = TRUE, !.rawBody = <<"{", "}">>,
                     !.json = [NoPayload EXCEPT !.present = TRUE, !.csvText = TRUE]],
        [Post EXCEPT !.ctypeJson = TRUE, !.rawBody = <<"{">>],
        [Post EXCEPT !.ua = <<>>],
        [Post EXCEPT !.ua = <<"A", "l", "w", "a", "y", "s", "O", "n">>, !.rawBody = <<"1", "9", ",", "7">>],
        [Post EXCEPT !.method = "GET"]}
  \cup {\* a JSON body that carries photosBaseUrl
        [Post EXCEPT !.ctypeJson = TRUE, !.rawBody = <<"{", "}">>,
                     !.json = [NoPayload EXCEPT !.present = TRUE, !.day = <<"1", "9">>,
                                                !.month = <<"7">>,
                                                !.photosBaseUrl = OtherBaseUrl]],
        \* a GET with query and body
        [Post EXCEPT !.method = "GET", !.dayQuery = <<"1", "9">>, !.monthQuery = <<"7">>,
                     !.rawBody = <<"1", "9", ",", "7">>],
        \* health-probe user agents with a query, with half a query, bare
        [Post EXCEPT !.ua = <<"H", "e", "a", "l", "t", "h", "C", "h", "e", "c", "k", "/", "1">>, !.dayQuery = <<"1", "9">>, !.monthQuery = <<"7">>],
        [Post EXCEPT !.ua = <<"A", "z", "u", "r", "e", "-", "F", "u", "n", "c", "t", "i", "o", "n", "s">>, !.dayQuery = <<"1", "9">>],
        [Post EXCEPT !.ua = <<"x", "A", "l", "w", "a", "y", "s", "O", "n">>]}

Settings(base, hook, now) ==
  [PHOTOS_BASE_URL |-> base, TEAMS_WEBHOOK_URL |-> hook, now |-> now]

\* the state at the call of renderCumples (line 144) for given arguments
AtRender(d, emps, base, files, urls, imgs, hook) ==
  /\ pc = "render"
  /\ request = NoRequest
  /\ rawBody = <<>>
  /\ payload = NoPayload
  /\ csv = emps
  /\ env = Settings(base, hook, d)
  /\ fotos = files
  /\ web = urls
  /\ assets = imgs
  /\ hoy = d
  /\ photosBaseUrl = base
  /\ empleados = emps
  /\ source = "local"
  /\ diasSemana = <<>>
  /\ cumpleaneros = <<>>
  /\ i = 0
  /\ slots = <<>>
  /\ canvas = <<>>
  /\ resolveLog = <<>>
  /\ outFile = NoFile
  /\ uploadedUrl = ""
  /\ blobs = <<>>
  /\ teams = <<>>
  /\ response = NoResponse

\* renderCumples called on every date of the enumerated years
InitWindow ==
  \E d \in AllDates :
    AtRender(d, SweepRoster, Empty, LocalUniverse, {},
             AllAssets, FALSE)

\* renderCumples called on every roster of at most MaxRoster records
InitSelect ==
  \E d \in SelDates, emps \in Rosters(SelRecords) :
    AtRender(d, emps, Empty, LocalUniverse, {}, AllAssets, FALSE)

\* renderCumples called with 0..MaxCelebrants celebrants
InitLayout ==
  \E k \in 0..MaxCelebrants, hook \in BOOLEAN, imgs \in SUBSET AllAssets :
    AtRender(Date(FirstYear, 6, 19),
             [n \in 1..k |-> Emp(<<"A", "n", "a">>, <<"L">>, <<"1", "9">>, <<"7">>, APng)],
             Empty, LocalUniverse, {}, imgs, hook)

\* renderCumples called with one celebrant and every photo name, base URL
\* and set of local files
InitPhoto ==
  \E name \in PhotoNames, base \in BaseUrls, files \in SUBSET LocalUniverse,
     urls \in {{}, WebUniverse} :
    AtRender(Date(FirstYear, 6, 19), <<Emp(<<"A", "n", "a">>, <<"L">>, <<"1", "9">>, <<"7">>, name)>>,
             base, files, urls, AllAssets, FALSE)

InitRender == InitWindow \/ InitSelect \/ InitLayout \/ InitPhoto

NextRender ==
  \/ RenderBegin
  \/ RenderBadge
  \/ RenderLoop
  \/ RenderSave
  \/ Upload
  \/ Notify
  \/ Respond

\* the handler from its call of renderCumples on
SpecRender == InitRender /\ [][NextRender]_vars

(***************************************************************************)
(* Claims about renderCumples, checked under SpecRender                    *)
(***************************************************************************)
Selected == pc \notin {"render"}

\* positions of the roster whose numeric (Day, Month) is the (day-of-month,
\* month) of a date of the window
Matching ==
  {j \in 1..Len(empleados) :
     LET dia == parseInt(empleados[j].Day)
         mes == parseInt(empleados[j].Month)
     IN /\ ~dia.nan
        /\ ~mes.nan
        /\ \E k \in 1..Len(diasSemana) :
             diasSemana[k].D = dia.v /\ diasSemana[k].M + 1 = mes.v}

\* the n-th smallest element of a set of numbers
Nth(set, n) == CHOOSE j \in set : Cardinality({m \in set : m < j}) = n - 1

\* C1: the celebrants are exactly the roster's records whose (Day, Month) is
\* the (day-of-month, month) of some date of the window, in roster order:
\* none left out, none added, records sharing a birthday all kept.
C1_SelectionExact ==
  Selected =>
    LET M == Matching IN
    /\ Len(cumpleaneros) = Cardinality(M)
    /\ \A n \in 1..Len(cumpleaneros) : cumpleaneros[n] = empleados[Nth(M, n)]

\* two records sharing a birthday are both selected, in roster order, from a
\* roster that also holds a record outside the window
C1_Witness ==
  /\ pc = "done"
  /\ Len(cumpleaneros) = 2
  /\ Len(empleados) > 2
  /\ cumpleaneros[1].Day = cumpleaneros[2].Day
  /\ cumpleaneros[1].Month = cumpleaneros[2].Month
  /\ cumpleaneros[1].FirstName # cumpleaneros[2].FirstName

\* days from 1 January of FirstYear to the date d, counted on the calendar
DaysBeforeYear(y) ==
  365 * (y - FirstYear) + Cardinality({z \in FirstYear..(y - 1) : IsLeap(z)})
DaysBeforeMonth(y, M) ==
  30 * M + Cardinality({m \in 0..(M - 1) : DaysInMonth(y, m) = 31})
         - (IF M > 1 THEN (IF IsLeap(y) THEN 1 ELSE 2) ELSE 0)
DayNumber(d) == DaysBeforeYear(d.y) + DaysBeforeMonth(d.y, d.M) + d.D

IsCalendarDate(d) ==
  /\ d.valid
  /\ d.M \in 0..11
  /\ d.D \in 1..DaysInMonth(d.y, d.M)

\* C2: the window is the 7 consecutive calendar dates hoy, hoy+1, ..., hoy+6,
\* and the response's dateRange is start = hoy, end = hoy+6.
C2_WindowConsecutive ==
  /\ Selected =>
       /\ Len(diasSemana) = 7
       /\ diasSemana[1] = hoy
       /\ \A k \in 1..7 : IsCalendarDate(diasSemana[k])
       /\ \A k \in 1..7 : DayNumber(diasSemana[k]) = DayNumber(hoy) + (k - 1)
  /\ (response.outcome = "returned" /\ response.body = "json") =>
       /\ response.dateRange.start =
            [YYYY |-> hoy.y, MM |-> hoy.M + 1, DD |-> hoy.D]
       /\ response.dateRange.end =
            [YYYY |-> diasSemana[7].y, MM |-> diasSemana[7].M + 1,
             DD |-> diasSemana[7].D]

\* a week that starts on 28 December and ends in the next year was answered
C2_Witness ==
  /\ response.outcome = "returned"
  /\ response.body = "json"
  /\ hoy.M = 11
  /\ hoy.D = 28
  /\ response.dateRange.end = [YYYY |-> hoy.y + 1, MM |-> 1, DD |-> 3]

LaidOut == pc \in {"upload", "notify", "respond"} \/ (pc = "done" /\ outFile.written)

RowOf(r) == {j \in 1..Len(slots) : slots[j].fila = r}
Ceil4(k) == (k + (maxPorFila - 1)) \div maxPorFila

\* x1 + x2 = WIDTH on rationals
Mirror(a, b) == a.num * b.den + b.num * a.den = WIDTH * a.den * b.den
SameX(a, b) == a.num * b.den = b.num * a.den

\* C3: k celebrants are laid out in ceil(k/4) rows filled in selection order,
\* every row full except possibly the last; in each row the centers are
\* symmetric about WIDTH/2 and pairwise different.
C3_LayoutRows ==
  LaidOut =>
    LET k == Len(cumpleaneros) IN
    /\ Len(slots) = k
    /\ {slots[j].fila : j \in 1..k} = 0..(Ceil4(k) - 1)
    /\ \A j \in 1..k : slots[j].fila * maxPorFila + slots[j].columna = j - 1
    /\ \A r \in 0..(Ceil4(k) - 2) : Cardinality(RowOf(r)) = maxPorFila
    /\ \A r \in 0..(Ceil4(k) - 1) :
         LET row == RowOf(r) IN
         /\ \A a \in row : \E b \in row :
              /\ slots[b].columna = Cardinality(row) - 1 - slots[a].columna
              /\ Mirror(slots[a].x, slots[b].x)
         /\ \A a, b \in row : a # b => ~SameX(slots[a].x, slots[b].x)
         /\ Cardinality(row) = 1 =>
              \A a \in row : 2 * slots[a].x.num = WIDTH * slots[a].x.den

\* five celebrants: a full row and a lone celebrant at WIDTH/2 in the second
C3_Witness ==
  /\ LaidOut
  /\ Len(slots) = 5
  /\ slots[5].fila = 1
  /\ 2 * slots[5].x.num = WIDTH * slots[5].x.den
  /\ slots[1].x.den = 5

\* every character of s is white space (the empty string included)
BlankOnly(s) == \A k \in 1..Len(s) : s[k] \in Blank

OnlySlashes(s) == \A k \in 1..Len(s) : s[k] = "/"

HasUrlScheme(s) ==
  \E n \in {7, 8} :
    /\ Len(s) >= n
    /\ LET lower == [k \in 1..n |-> ToLower(s[k])]
       IN lower \in {<<"h", "t", "t", "p", ":", "/", "/">>,
                     <<"h", "t", "t", "p", "s", ":", "/", "/">>}

\* out is a part of base and a part of name with exactly one slash between
\* them: only slashes were dropped at the end of base and the start of name
JoinedByOneSlash(out, base, name) ==
  \E k \in 1..Len(out) :
    LET b == SubSeq(out, 1, k - 1)
        n == SubSeq(out, k + 1, Len(out))
    IN /\ out[k] = "/"
       /\ (b = <<>> \/ b[Len(b)] # "/")
       /\ (n = <<>> \/ n[1] # "/")
       /\ Len(b) <= Len(base)
       /\ SubSeq(base, 1, Len(b)) = b
       /\ OnlySlashes(SubSeq(base, Len(b) + 1, Len(base)))
       /\ Len(n) <= Len(name)
       /\ SubSeq(name, Len(name) - Len(n) + 1, Len(name)) = n
       /\ OnlySlashes(SubSeq(name, 1, Len(name) - Len(n)))

\* the rules of resolvePhotoSrc in their order, for one recorded call; url
\* is the text the absolute-URL rule tests and returns
RulesInOrder(c, url) ==
  IF BlankOnly(c.photoName) THEN ~c.result.resolved
  ELSE IF HasUrlScheme(url) THEN c.result = Resolved(url)
  ELSE IF c.photosBaseUrl # <<>>
    THEN /\ c.result.resolved
         /\ JoinedByOneSlash(c.result.src, c.photosBaseUrl, Trim(c.photoName))
  ELSE LET local == PathJoin(fotosDir, Trim(c.photoName))
       IN c.result = IF local \in fotos THEN Resolved(local) ELSE Unresolved

SameInputsSameResult ==
  \A a, b \in 1..Len(resolveLog) :
    (/\ resolveLog[a].photoName = resolveLog[b].photoName
     /\ resolveLog[a].photosBaseUrl = resolveLog[b].photosBaseUrl)
    => resolveLog[a].result = resolveLog[b].result

HandlerRecords ==
  {Emp(<<"A", "n", "a">>, <<"L">>, <<"1", "9">>, <<"7">>, APng),
   Emp(<<"B", "o", "b">>, <<"R">>, <<"2", "0">>, <<"7">>, Empty),
   Emp(<<"Z", "e", "d">>, <<"Z">>, <<"3">>, <<"3">>, <<"g", "h", "o", "s", "t", ".", "p", "n", "g">>),
   Emp(<<"U", "m", "a">>, <<"U">>, <<"2", "1">>, <<"7">>, AbsPhoto)}

Worlds ==
  {[base |-> Empty, fotos |-> f, web |-> w] :
     f \in SUBSET LocalUniverse, w \in SUBSET {AbsPhoto}}
  \cup {[base |-> BaseUrl, fotos |-> {}, web |-> w] :
          w \in SUBSET (WebUniverse \ {<<"h", "t", "t", "p", ":", "/", "/", "b", "/", "g", "h", "o", "s", "t", ".", "p", "n", "g">>})}

AtStart(req, rows, world, now, imgs, hook) ==
  /\ pc = "start"
  /\ request = req
  /\ rawBody = <<>>
  /\ payload = NoPayload
  /\ csv = rows
  /\ env = Settings(world.base, hook, now)
  /\ fotos = world.fotos
  /\ web = world.web
  /\ assets = imgs
  /\ hoy = now
  /\ photosBaseUrl = <<>>
  /\ empleados = <<>>
  /\ source = ""
  /\ diasSemana = <<>>
  /\ cumpleaneros = <<>>
  /\ i = 0
  /\ slots = <<>>
  /\ canvas = <<>>
  /\ resolveLog = <<>>
  /\ outFile = NoFile
  /\ uploadedUrl = ""
  /\ blobs = <<>>
  /\ teams = <<>>
  /\ response = NoResponse

FullWorld == [base |-> Empty, fotos |-> LocalUniverse, web |-> {AbsPhoto}]

\* every request, on 19 July of each year, with and without the webhook
InitRequests ==
  \E req \in Requests, y \in Years, hook \in BOOLEAN, imgs \in SUBSET AllAssets :
    AtStart(req,
            <<Emp(<<"A", "n", "a">>, <<"L">>, <<"1", "9">>, <<"7">>, APng), Emp(<<"Z", "e", "d">>, <<"Z">>, <<"3">>, <<"3">>, <<"g", "h", "o", "s", "t", ".", "p", "n", "g">>)>>,
            FullWorld, Date(y, 6, 19), imgs, hook)

\* every roster over every set of photos that exist, for a week of July
InitPhotos ==
  \E rows \in Rosters(HandlerRecords), world \in Worlds :
    AtStart(WithQuery(<<"1", "9">>, <<"7">>), rows, world, Date(FirstYear, 0, 2),
            AllAssets, TRUE)

Init == InitRequests \/ InitPhotos

Next ==
  \/ HandlerEntry
  \/ ParseDate
  \/ AcquireCsv
  \/ RenderBegin
  \/ RenderBadge
  \/ RenderLoop
  \/ RenderSave
  \/ Upload
  \/ Notify
  \/ Respond

Spec == Init /\ [][Next]_vars

(***************************************************************************)
(* Claims about the handler, checked under Spec                            *)
(***************************************************************************)
Success200 ==
  /\ response.outcome = "returned"
  /\ response.status = 200
  /\ response.body = "json"

\* C5: once render and blob upload have succeeded the handler ends with the
\* 200 success response, whether the Teams webhook call succeeds, rejects or
\* is not configured.
C5_WebhookNeverAffectsOutcome ==
  (pc = "done" /\ uploadedUrl # "") => Success200

\* the request supplies numbers for day and month that are no date of the
\* calendar of the current year
InvalidDayMonth ==
  LET pl == parsePayload(request, request.rawBody)
      day == dayOf(request, pl)
      month == monthOf(request, pl)
  IN /\ ~day.nan
     /\ ~month.nan
     /\ \/ month.v \notin 1..12
        \/ day.v \notin 1..DaysInMonth(env.now.y, month.v - 1)

\* C6: a request with an invalid day/month combination is answered with a
\* request-validation error before any rendering: no window is computed, and
\* nothing is rendered, uploaded or notified.
C6_InvalidDateRejected ==
  (request.method = "POST" /\ InvalidDayMonth) =>
    /\ diasSemana = <<>>
    /\ canvas = <<>>
    /\ ~outFile.written
    /\ blobs = <<>>
    /\ teams = <<>>
    /\ pc = "done" => (response.outcome = "returned" /\ response.status = 400)

IsLabel(o) == o.op \in {"bubble", "name"}
Labels == SelectSeq(canvas, IsLabel)

\* only a missing asset, or a failure after the PNG was written, makes the
\* handler throw
ThrowsOnlyOutsideLoop ==
  response.outcome = "threw" =>
    \/ assets # AllAssets
    \/ outFile.written

\* C7: a photo that fails to load never aborts the render: the loop goes on,
\* the day bubble and the name of every celebrant are drawn in selection
\* order, the PNG is written with all of them, and the count returned is the
\* number of selected celebrants.
C7_PhotoFailureTolerated ==
  /\ pc = "loop" => ENABLED (RenderLoop \/ RenderSave)
  /\ ThrowsOnlyOutsideLoop
  /\ Len(Labels) = 2 * i
  /\ \A n \in 0..(i - 1) :
       /\ Labels[2 * n + 1] =
            Op("bubble", n, PadStart2(cumpleaneros[n + 1].Day), FALSE)
       /\ Labels[2 * n + 2] = Op("name", n, Nombre(cumpleaneros[n + 1]), FALSE)
  /\ outFile.written =>
       /\ i = Len(cumpleaneros)
       /\ outFile.ops = canvas
  /\ Success200 => response.cumpleaneros = Len(cumpleaneros)

HasPhoto(n) == \E k \in 1..Len(canvas) : canvas[k].op = "photo" /\ canvas[k].idx = n

\* a render answered with 200 in which the first celebrant's photo did not
\* load and a later celebrant's photo did
C7_Witness ==
  /\ Success200
  /\ Len(cumpleaneros) >= 2
  /\ ~HasPhoto(0)
  /\ HasPhoto(1)
  /\ resolveLog[1].result.resolved

CallsFor(n) == SelectSeq(resolveLog, LAMBDA c : c.idx = n)

\* C8: resolution is retried once, with "user.png" and the same base URL and
\* directory, exactly when the celebrant's own photoName is unresolved; when
\* the retry is unresolved too the celebrant has no photo and nothing is
\* thrown.
C8_RetryOnceWithDefault ==
  /\ ThrowsOnlyOutsideLoop
  /\ \A n \in 0..(i - 1) :
       LET calls == CallsFor(n) IN
       /\ Len(calls) \in {1, 2}
       /\ calls[1].photoName = cumpleaneros[n + 1].PhotoName
       /\ calls[1].photosBaseUrl = photosBaseUrl
       /\ Len(calls) = 2 <=> ~calls[1].result.resolved
       /\ Len(calls) = 2 =>
            /\ calls[2].photoName = defaultName
            /\ calls[2].photosBaseUrl = photosBaseUrl
            /\ RulesInOrder(calls[2], defaultName)
            /\ ~calls[2].result.resolved => ~HasPhoto(n)

\* a render answered with 200 in which a celebrant's own name and the retry
\* were both unresolved, and another celebrant needed no retry
C8_Witness ==
  /\ Success200
  /\ \E n \in 0..(i - 1) :
       /\ Len(CallsFor(n)) = 2
       /\ ~CallsFor(n)[2].result.resolved
  /\ \E n \in 0..(i - 1) : Len(CallsFor(n)) = 1

Loadable(r) == r.resolved /\ r.src \in (fotos \cup web)
Placeholder == resolvePhotoSrc(defaultName, photosBaseUrl, fotosDir, fotos)

\* C9: a celebrant whose own photo cannot be obtained (PhotoName empty, or
\* the file or URL it resolves to does not exist) gets the user.png
\* placeholder drawn in its slot, here whenever that placeholder exists.
C9_PlaceholderWhenPhotoMissing ==
  \A n \in 0..(i - 1) :
    (/\ ~Loadable(CallsFor(n)[1].result)
     /\ Loadable(Placeholder))
    => \E k \in 1..Len(canvas) :
         canvas[k] = Op("photo", n, Placeholder.src, TRUE)

\* C10: with the background image missing renderCumples fails before any
\* celebrant is drawn: nothing is drawn or resolved, no PNG is written, no
\* blob is uploaded and no Teams notification is sent.
C10_MissingBackgroundFailsFast ==
  "background" \notin assets =>
    /\ canvas = <<>>
    /\ slots = <<>>
    /\ resolveLog = <<>>
    /\ ~outFile.written
    /\ blobs = <<>>
    /\ teams = <<>>
    /\ diasSemana # <<>> => (pc = "done" /\ response = Threw)

\* renderCumples was called with celebrants in the window and failed on the
\* missing background
C10_Witness ==
  /\ "background" \notin assets
  /\ cumpleaneros # <<>>
  /\ pc = "done"
  /\ response = Threw

\* a photo name that is neither blank nor an absolute URL
RelativeName(name) == ~BlankOnly(name) /\ ~HasUrlScheme(Trim(name))

\* C11: when the JSON body of the request carries photosBaseUrl = B, every
\* relative PhotoName of that request is resolved against B, not against the
\* PHOTOS_BASE_URL setting.
C11_BodyBaseUrlOverrides ==
  (/\ payload.present
   /\ payload.photosBaseUrl # <<>>)
  => \A n \in 1..Len(resolveLog) :
       RelativeName(resolveLog[n].photoName) =>
         /\ resolveLog[n].photosBaseUrl = payload.photosBaseUrl
         /\ JoinedByOneSlash(resolveLog[n].result.src, payload.photosBaseUrl,
                             Trim(resolveLog[n].photoName))

\* the user-agent marks a health probe
ProbeUserAgent(ua) ==
  \/ ua = <<>>
  \/ \E mark \in {<<"A", "l", "w", "a", "y", "s", "O", "n">>, <<"A", "z", "u", "r", "e", "-", "F", "u", "n", "c", "t", "i", "o", "n", "s">>, <<"H", "e", "a", "l", "t", "h", "C", "h", "e", "c", "k">>} :
       \E k \in 1..Len(ua) :
         /\ k + Len(mark) - 1 <= Len(ua)
         /\ \A j \in 1..Len(mark) : ua[k + j - 1] = mark[j]

\* the request was answered 200 OK, or not answered yet, and nothing was
\* parsed, rendered, uploaded or notified for it
Ignored ==
  /\ pc \in {"start", "done"}
  /\ pc = "done" => response = PlainOK
  /\ empleados = <<>>
  /\ diasSemana = <<>>
  /\ canvas = <<>>
  /\ resolveLog = <<>>
  /\ ~outFile.written
  /\ blobs = <<>>
  /\ teams = <<>>

\* C12 as stated: every non-POST request and every request with a health
\* probe user-agent is answered 200 OK without any processing, whatever its
\* body or query parameters.
C12_AsStated ==
  (request.method # "POST" \/ ProbeUserAgent(request.ua)) => Ignored

\* C12 amended: every non-POST request, whatever its body or query, and
\* every POST with a health probe user-agent that carries neither both day
\* and month in the query nor a body the handler could read as non-empty, is
\* answered 200 OK without any processing.
C12_ProbesIgnored ==
  (\/ request.method # "POST"
   \/ /\ ProbeUserAgent(request.ua)
      /\ ~(request.dayQuery # <<>> /\ request.monthQuery # <<>>)
      /\ rawBody = <<>>)
  => Ignored

\* a POST from a health probe with only day in its query was answered 200 OK
C12_Witness ==
  /\ pc = "done"
  /\ response = PlainOK
  /\ request.method = "POST"
  /\ request.ua = <<"A", "z", "u", "r", "e", "-", "F", "u", "n", "c", "t", "i", "o", "n", "s">>
  /\ request.dayQuery # <<>>

====
